---- MODULE Spec2Model ----
(***************************************************************************)
(* A model of the image pipeline core of nirspec_reductions:               *)
(*   fits_dataclass.py  - Image (lazy payload cache), ImageSet (query),    *)
(*                        Transform (filter / partition / transform_op)   *)
(*   image_utils (.ipynb_checkpoints/image_utils-checkpoint.py)            *)
(*                      - combine_darks, subtract_dark, perform_darksub    *)
(*                                                                         *)
(* Python values are represented as follows.                               *)
(*   header value : a sequence of strings, <<"str", s>> for a string or    *)
(*                  number, <<"list", s1, ...>> for a list, <<"none">> for *)
(*                  None;                                                  *)
(*   header       : a function from the keys present to header values;     *)
(*   pixel        : [nan |-> BOOLEAN, v |-> Int], v counted in half units  *)
(*                  so that the mean of two integer pixels is exact;       *)
(*   Image        : [id, header, data]; id stands for the object identity  *)
(*                  (what id(image) returns), ids below 1 are objects      *)
(*                  created during a call;                                 *)
(*   dynamically typed argument or return value : [Image |-> image] or     *)
(*                  [iter |-> sequence of images].                         *)
(***************************************************************************)
EXTENDS Integers, Sequences, FiniteSets, TLC

VARIABLES
    \* ---- Transform.__call__ / ImageSet.query / perform_darksub ----
    images,          \* ImageSet.images of the input collection
    images0,         \* history: the input collection as it was at the call
    filter,          \* Transform.filter
    partition_keys,  \* Transform.partition_keys
    pc,              \* position inside the running call
    pos,             \* number of input images the for loop has consumed
    ignored,         \* __call__: local list `ignored`
    partition,       \* __call__: local insertion-ordered dict `partition`
    transformed,     \* __call__: the list `transformed` built so far
    calls,           \* history: the invocations of transform_op so far
    result,          \* what the call returned: [returned, images]
    err,             \* the exception that left the call, or "none"
    criteria,        \* query: the keyword arguments
    \* ---- subtract_dark(combine_darks(X), X) ----
    X,               \* the raw image of the round trip
    swap,            \* FALSE: the order above; TRUE: subtract_dark(X, combine_darks(X))
    master,          \* what combine_darks(X) returned or raised
    diff,            \* what subtract_dark returned or raised
    \* ---- Image.load / Image.data ----
    disk,            \* what reading the file named _filename gives at present
    alive,           \* an Image has been constructed by Image.load
    _data,           \* Image._data, the payload cache
    ret,             \* what the last access of .data returned or raised
    reads,           \* history: number of fitsio.read calls made by .data
    stores,          \* history: number of non-None assignments to _data by .data
    accesses,        \* history: number of .data accesses
    hit              \* history: the last access found the cache filled

vars == << images, images0, filter, partition_keys, pc, pos, ignored, partition,
           transformed, calls, result, err, criteria, X, swap, master, diff,
           disk, alive, _data, ret, reads, stores, accesses, hit >>

callVars  == << images, images0, filter, partition_keys, pc, pos, ignored,
                partition, transformed, calls, result, err, criteria >>
tripVars  == << X, swap, master, diff >>
cacheVars == << disk, alive, _data, ret, reads, stores, accesses, hit >>

----------------------------------------------------------------------------
(* Bounds *)

MaxLen == 4          \* longest input collection
MaxAccesses == 5     \* .data accesses followed on one Image

----------------------------------------------------------------------------
(* Python values *)

None == <<"none">>
Str(s) == <<"str", s>>
List(ss) == <<"list">> \o ss

\* hash(v) raises TypeError for a list, and for a tuple that holds one
Hashable(v) == v[1] # "list"
HashableTuple(t) == \A k \in 1..Len(t) : Hashable(t[k])

NoHeader == <<>>
Px(n) == [nan |-> FALSE, v |-> 2 * n]
NaN == [nan |-> TRUE, v |-> 0]

RECURSIVE Count(_, _)
Count(x, s) == IF s = <<>> THEN 0
               ELSE (IF Head(s) = x THEN 1 ELSE 0) + Count(x, Tail(s))

RECURSIVE Concat(_)
Concat(ss) == IF ss = <<>> THEN <<>> ELSE Head(ss) \o Concat(Tail(ss))

Range(s) == { s[k] : k \in 1..Len(s) }

RECURSIVE SeqsUpTo(_, _)
SeqsUpTo(S, n) == IF n = 0 THEN { <<>> }
                  ELSE LET shorter == SeqsUpTo(S, n - 1)
                       IN  shorter \cup { Append(s, x) : s \in shorter, x \in S }

----------------------------------------------------------------------------
(* The images the inputs are drawn from *)

Frame(id, header, data) == [id |-> id, header |-> header, data |-> data]

Object1 == Frame(1, ("IMAGETYP" :> Str("object")) @@ ("ITIME" :> Str("1"))
                    @@ ("FILENAME" :> Str("f1")),
                 << Px(5), Px(3) >>)
MFlat2 == Frame(2, ("IMAGETYP" :> Str("masterflat")) @@ ("ITIME" :> Str("1"))
                   @@ ("FILENAME" :> Str("f2")) @@ ("FLATFILES" :> List(<<"f2", "f8">>)),
                << Px(4), Px(4) >>)
MDark3 == Frame(3, ("IMAGETYP" :> Str("masterdark")) @@ ("ITIME" :> Str("1"))
                   @@ ("FILENAME" :> Str("d1")) @@ ("DARKFILES" :> List(<<"d1", "d2">>)),
                << Px(1), Px(2) >>)
MDark4 == Frame(4, ("IMAGETYP" :> Str("masterdark"))
                   @@ ("DARKFILES" :> List(<<"d3">>)),
                << Px(2), Px(2) >>)
Arc5 == Frame(5, ("IMAGETYP" :> Str("arc")) @@ ("ITIME" :> Str("2")),
              << Px(7), Px(0) >>)
Object6 == Frame(6, ("IMAGETYP" :> Str("object")), << Px(3), NaN >>)
Bare7 == Frame(7, ("FILENAME" :> Str("f7")), << Px(1), Px(1) >>)
MDark8 == Frame(8, ("IMAGETYP" :> Str("masterdark")) @@ ("ITIME" :> Str("2")),
                << Px(1), Px(1) >>)

\* Transform and query: two objects, one of them without ITIME, and a frame
\* that carries a list-valued header entry
TransformPool == { Object1, MFlat2, Object6 }

----------------------------------------------------------------------------
(* fits_dataclass.py: Image.metadata, ImageSet.__init__, ImageSet.query *)

\* Image.metadata(*keys): header.get(key, None) for each key, as a tuple
metadata(image, keys) ==
    [ k \in 1..Len(keys) |->
        IF keys[k] \in DOMAIN image.header THEN image.header[keys[k]] ELSE None ]

\* ImageSet.__init__(*imagesets): an Image is appended, anything else is
\* iterated and its elements appended (one level of flattening)
RECURSIVE ImageSetInit(_)
ImageSetInit(imagesets) ==
    IF imagesets = <<>> THEN <<>>
    ELSE LET ims == Head(imagesets)
         IN  (IF "Image" \in DOMAIN ims THEN << ims.Image >> ELSE ims.iter)
             \o ImageSetInit(Tail(imagesets))

\* faulty variant: a Record matches as soon as one of the criteria is met
matches_any(image, kwargs) ==
    \E k \in 1..Len(kwargs.keys) :
        metadata(image, kwargs.keys)[k] = kwargs.values[k]

\* ImageSet.query(**kwargs), kwargs given as its keys() and its values()
matches(image, kwargs) == metadata(image, kwargs.keys) = kwargs.values

query(self, kwargs) ==
    LET keep(img) == matches(img, kwargs)
    IN  ImageSetInit(<< [iter |-> SelectSeq(self, keep)] >>)

----------------------------------------------------------------------------
(* fits_dataclass.py: Transform.__call__ *)

NoFilter == [on |-> FALSE, accept |-> {}]
NoKeys == [on |-> FALSE, keys |-> <<>>]
NoResult == [returned |-> FALSE, images |-> <<>>]
Returned(imgs) == [returned |-> TRUE, images |-> imgs]
Raised == [raised |-> TRUE]

\* self.filter is not None and not self.filter(image)
filtered_out(f, image) == f.on /\ image.id \notin f.accept

\* faulty variant: without partition_keys every image gets one and the same key
partition_value_shared(pk, image) ==
    IF pk.on THEN metadata(image, pk.keys) ELSE 0

\* partition_value(image)
partition_value(pk, image) ==
    IF pk.on THEN metadata(image, pk.keys) ELSE image.id

\* a metadata tuple that holds a list cannot be a dict key
unhashable(pk, image) == pk.on /\ ~HashableTuple(partition_value(pk, image))

\* faulty variant: partition[key] = [image], the bucket is overwritten
dict_append_overwrite(d, key, image) ==
    IF \E n \in 1..Len(d) : d[n].key = key
    THEN [ n \in 1..Len(d) |->
             IF d[n].key = key THEN [d[n] EXCEPT !.imgs = << image >>]
             ELSE d[n] ]
    ELSE Append(d, [key |-> key, imgs |-> << image >>])

\* partition[key].append(image) on a defaultdict(list): an existing key keeps
\* its place, a new key goes last
dict_append(d, key, image) ==
    IF \E n \in 1..Len(d) : d[n].key = key
    THEN [ n \in 1..Len(d) |->
             IF d[n].key = key THEN [d[n] EXCEPT !.imgs = Append(@, image)]
             ELSE d[n] ]
    ELSE Append(d, [key |-> key, imgs |-> << image >>])

\* ensure_list(elts)
ensure_list(elts) ==
    IF "Image" \in DOMAIN elts THEN << elts.Image >> ELSE elts.iter

\* the objects a transform_op creates: the j-th Image made by the c-th call
NewImage(c, j) == Frame(0 - (2 * c + j), NoHeader, <<>>)

\* what transform_op(*_images) may do: raise, return one Image, or return
\* an iterable of Images (here: none, or two)
op_outcomes(c) ==
    { Raised,
      [Image |-> NewImage(c, 1)],
      [iter |-> <<>>],
      [iter |-> << NewImage(c, 1), NewImage(c, 2) >>] }

\* lines 95-99, one iteration of `for image in images`
ScanStep ==
    /\ pc = "scan"
    /\ pos < Len(images)
    /\ LET image == images[pos + 1]
       IN  IF filtered_out(filter, image)
           THEN /\ ignored' = Append(ignored, image)
                /\ pos' = pos + 1
                /\ UNCHANGED << partition, pc, err >>
           ELSE IF unhashable(partition_keys, image)
           THEN /\ pc' = "raised"
                /\ err' = "TypeError"
                /\ UNCHANGED << ignored, partition, pos >>
           ELSE /\ partition' = dict_append(partition,
                                    partition_value(partition_keys, image), image)
                /\ pos' = pos + 1
                /\ UNCHANGED << ignored, pc, err >>
    /\ UNCHANGED << images, images0, filter, partition_keys, transformed, calls,
                    result, criteria, tripVars, cacheVars >>

\* the for loop is exhausted
ScanDone ==
    /\ pc = "scan"
    /\ pos = Len(images)
    /\ pc' = "transform"
    /\ UNCHANGED << images, images0, filter, partition_keys, pos, ignored,
                    partition, transformed, calls, result, err, criteria,
                    tripVars, cacheVars >>

\* faulty variant: a failing transform_op is caught and its bucket skipped
TransformStepSkipsFailure ==
    /\ pc = "transform"
    /\ Len(calls) < Len(partition)
    /\ LET c == Len(calls) + 1
           _images == partition[c].imgs
       IN  \E out \in op_outcomes(c) :
             /\ calls' = Append(calls, [args |-> _images, ret |-> out])
             /\ IF out = Raised
                THEN UNCHANGED << pc, err, transformed >>
                ELSE /\ transformed' = transformed \o ensure_list(out)
                     /\ UNCHANGED << pc, err >>
    /\ UNCHANGED << images, images0, filter, partition_keys, pos, ignored,
                    partition, result, criteria, tripVars, cacheVars >>

\* lines 101-102, one bucket of the comprehension over partition.values()
TransformStep ==
    /\ pc = "transform"
    /\ Len(calls) < Len(partition)
    /\ LET c == Len(calls) + 1
           _images == partition[c].imgs
       IN  \E out \in op_outcomes(c) :
             /\ calls' = Append(calls, [args |-> _images, ret |-> out])
             /\ IF out = Raised
                THEN /\ pc' = "raised"
                     /\ err' = "OpError"
                     /\ UNCHANGED transformed
                ELSE /\ transformed' = transformed \o ensure_list(out)
                     /\ UNCHANGED << pc, err >>
    /\ UNCHANGED << images, images0, filter, partition_keys, pos, ignored,
                    partition, result, criteria, tripVars, cacheVars >>

\* faulty variant: ImageSet(ignored+transformed)
ReturnIgnoredFirst ==
    /\ pc = "transform"
    /\ Len(calls) = Len(partition)
    /\ result' = Returned(ImageSetInit(<< [iter |-> ignored \o transformed] >>))
    /\ pc' = "done"
    /\ UNCHANGED << images, images0, filter, partition_keys, pos, ignored,
                    partition, transformed, calls, err, criteria, tripVars,
                    cacheVars >>

\* lines 104-106
Return ==
    /\ pc = "transform"
    /\ Len(calls) = Len(partition)
    /\ result' = Returned(ImageSetInit(<< [iter |-> transformed \o ignored] >>))
    /\ pc' = "done"
    /\ UNCHANGED << images, images0, filter, partition_keys, pos, ignored,
                    partition, transformed, calls, err, criteria, tripVars,
                    cacheVars >>

Filters == { NoFilter } \cup { [on |-> TRUE, accept |-> A] : A \in SUBSET { 1, 2, 6 } }
KeyLists == { NoKeys } \cup
            { [on |-> TRUE, keys |-> ks] :
                ks \in { << "IMAGETYP" >>, << "ITIME" >>, << "ITIME", "IMAGETYP" >>,
                         << "FLATFILES" >> } }

NoCriteria == [keys |-> <<>>, values |-> <<>>]
Ok(v) == [err |-> "none", val |-> v]
Fail(e) == [err |-> e, val |-> <<>>]
NotRun == [err |-> "notrun", val |-> <<>>]
Nothing == [set |-> FALSE, val |-> <<>>]
Some(v) == [set |-> TRUE, val |-> v]

IdleTrip == /\ X = Frame(0, NoHeader, <<>>)
            /\ swap = FALSE
            /\ master = NotRun
            /\ diff = NotRun
IdleCache == /\ disk = Nothing
             /\ alive = FALSE
             /\ _data = Nothing
             /\ ret = NotRun
             /\ reads = 0
             /\ stores = 0
             /\ accesses = 0
             /\ hit = FALSE

InitTransform ==
    /\ images \in SeqsUpTo(TransformPool, MaxLen)
    /\ images0 = images
    /\ filter \in Filters
    /\ partition_keys \in KeyLists
    /\ pc = "scan"
    /\ pos = 0
    /\ ignored = <<>>
    /\ partition = <<>>
    /\ transformed = <<>>
    /\ calls = <<>>
    /\ result = NoResult
    /\ err = "none"
    /\ criteria = NoCriteria
    /\ IdleTrip
    /\ IdleCache

NextTransform == ScanStep \/ ScanDone \/ TransformStep \/ Return

SpecTransform == InitTransform /\ [][NextTransform]_vars

----------------------------------------------------------------------------
(* Transform.__call__: what the claims speak of *)

\* the inclusion predicate as the caller meant it
Passes(x) == ~filter.on \/ x.id \in filter.accept
Fails(x) == ~Passes(x)
Included == SelectSeq(images, Passes)
Excluded == SelectSeq(images, Fails)

\* the grouping signature of an included Record
KeyOf(x) == IF partition_keys.on
            THEN [ k \in 1..Len(partition_keys.keys) |->
                     IF partition_keys.keys[k] \in DOMAIN x.header
                     THEN x.header[partition_keys.keys[k]] ELSE None ]
            ELSE x.id

RECURSIVE FirstSeen(_)
FirstSeen(s) ==
    IF s = <<>> THEN <<>>
    ELSE LET front == FirstSeen(SubSeq(s, 1, Len(s) - 1))
             last == s[Len(s)]
         IN  IF last \in Range(front) THEN front ELSE Append(front, last)

IncludedKeys == FirstSeen([ k \in 1..Len(Included) |-> KeyOf(Included[k]) ])

ExpectedBuckets ==
    [ n \in 1..Len(IncludedKeys) |->
        LET inBucket(x) == KeyOf(x) = IncludedKeys[n]
        IN  SelectSeq(Included, inBucket) ]

CallArgs == [ k \in 1..Len(calls) |-> calls[k].args ]
Outputs(r) == IF "iter" \in DOMAIN r THEN r.iter ELSE << r.Image >>
CallOutputs == [ k \in 1..Len(calls) |-> Outputs(calls[k].ret) ]
Handed(x) == Count(x, Concat(CallArgs))
CallsHolding(x) == { k \in 1..Len(calls) : Count(x, calls[k].args) > 0 }

\* C1: when a call of the transform returns, every position of the input is
\* accounted for exactly once: a Record that fails the predicate occurs in the
\* result as often as in the input and is handed to no aggregate call; a
\* Record that passes (any Record without a predicate) is handed to exactly
\* one aggregate call, as often as it occurs in the input, and is not passed
\* through; nothing else is handed to aggregate.
C1_PartitionCompleteness ==
    pc = "done" =>
        /\ \A x \in Range(images) :
             IF Passes(x)
             THEN /\ Handed(x) = Count(x, images)
                  /\ Cardinality(CallsHolding(x)) = 1
                  /\ Count(x, result.images) = 0
             ELSE /\ Count(x, result.images) = Count(x, images)
                  /\ Handed(x) = 0
        /\ Range(Concat(CallArgs)) \subseteq Range(images)
        /\ Len(Concat(CallArgs)) + Len(Excluded) = Len(images)

C1_Witness ==
    /\ pc = "done"
    /\ partition_keys.on
    /\ \E x, y \in Range(images) :
         /\ Passes(x) /\ Count(x, images) >= 2
         /\ Fails(y)
         /\ Count(y, result.images) = 1

\* C2: when a call of the transform returns, aggregate was invoked on the
\* buckets in the order their keys were first seen, each bucket holding its
\* Records in input order, and the result is the aggregate outputs in that
\* order followed by the excluded Records in input order.
C2_OutputOrder ==
    pc = "done" =>
        /\ CallArgs = ExpectedBuckets
        /\ result = Returned(Concat(CallOutputs) \o Excluded)

C2_Witness ==
    /\ pc = "done"
    /\ Len(calls) >= 2
    /\ Len(calls[1].args) >= 2
    /\ Len(Excluded) >= 1
    /\ images[1] = Excluded[1]
    /\ \E k \in 1..Len(calls) : Len(Outputs(calls[k].ret)) = 2
    /\ \E k \in 1..Len(calls) : "Image" \in DOMAIN calls[k].ret

\* C3: if aggregate fails for a bucket the call ends in that error at once and
\* returns nothing; a call that returns has aggregated every bucket without a
\* failure; the input collection is what it was.
C3_AllOrNothing ==
    /\ \A k \in 1..Len(calls) :
         calls[k].ret = Raised =>
            /\ k = Len(calls)
            /\ pc = "raised"
            /\ err = "OpError"
            /\ result = NoResult
    /\ result.returned =>
         /\ Len(calls) = Len(ExpectedBuckets)
         /\ err = "none"
    /\ images = images0

C3_Witness ==
    /\ pc = "raised"
    /\ Len(calls) >= 2
    /\ calls[Len(calls)].ret = Raised
    /\ transformed # <<>>
    /\ Len(calls) < Len(partition)
    /\ result = NoResult

\* C9 as stated: without partition_keys aggregate is invoked once per included
\* position of the input and every invocation receives exactly one Record.
C9_SingletonPerPosition ==
    (pc = "done" /\ ~partition_keys.on) =>
        /\ Len(calls) = Len(Included)
        /\ \A k \in 1..Len(calls) : Len(calls[k].args) = 1

\* C9 amended: without partition_keys aggregate is invoked once per distinct
\* included Record, in first-seen order, and the invocation for a Record
\* receives that Record alone, once for every included position it occupies;
\* so every invocation receives exactly one Record when no included Record
\* occurs twice.
C9_OnePartitionPerRecord ==
    (pc = "done" /\ ~partition_keys.on) =>
        /\ Len(calls) = Cardinality(Range(Included))
        /\ \A k \in 1..Len(calls) :
             \E x \in Range(Included) :
                calls[k].args = [ n \in 1..Count(x, Included) |-> x ]
        /\ (\A x \in Range(Included) : Count(x, Included) = 1) =>
              \A k \in 1..Len(calls) : Len(calls[k].args) = 1

C9_Witness ==
    /\ pc = "done"
    /\ ~partition_keys.on
    /\ Len(calls) = 2
    /\ Len(calls[1].args) = 2
    /\ Len(calls[2].args) = 1

----------------------------------------------------------------------------
(* ImageSet.query as a call *)

QueryPool == { Object1, MFlat2, MDark3, Object6 }

Criteria ==
    { NoCriteria,
      [keys |-> << "IMAGETYP" >>, values |-> << Str("masterflat") >>],
      [keys |-> << "IMAGETYP" >>, values |-> << Str("object") >>],
      [keys |-> << "ITIME" >>, values |-> << None >>],
      [keys |-> << "ITIME", "IMAGETYP" >>, values |-> << Str("1"), Str("object") >>],
      [keys |-> << "IMAGETYP", "ITIME" >>, values |-> << Str("object"), None >>],
      [keys |-> << "FLATFILES" >>, values |-> << List(<< "f2", "f8" >>) >>] }

\* images.query(**criteria), lines 64-68
Query ==
    /\ pc = "call"
    /\ result' = Returned(query(images, criteria))
    /\ pc' = "done"
    /\ UNCHANGED << images, images0, filter, partition_keys, pos, ignored,
                    partition, transformed, calls, err, criteria, tripVars,
                    cacheVars >>

InitCallIdle ==
    /\ images0 = images
    /\ filter = NoFilter
    /\ partition_keys = NoKeys
    /\ pc = "call"
    /\ pos = 0
    /\ ignored = <<>>
    /\ partition = <<>>
    /\ transformed = <<>>
    /\ calls = <<>>
    /\ result = NoResult
    /\ err = "none"

InitCall ==
    /\ InitCallIdle
    /\ IdleTrip
    /\ IdleCache

InitQuery ==
    /\ images \in SeqsUpTo(QueryPool, MaxLen)
    /\ criteria \in Criteria
    /\ InitCall

NextQuery == Query

SpecQuery == InitQuery /\ [][NextQuery]_vars

\* the value a Record's metadata holds for a key, absent read as None
Get(x, key) == IF key \in DOMAIN x.header THEN x.header[key] ELSE None
Meets(x) == \A k \in 1..Len(criteria.keys) : Get(x, criteria.keys[k]) = criteria.values[k]

RECURSIVE Kept(_)
Kept(s) == IF s = <<>> THEN <<>>
           ELSE IF Meets(Head(s)) THEN << Head(s) >> \o Kept(Tail(s))
           ELSE Kept(Tail(s))

\* C8: query returns exactly the Records whose metadata equals the criteria
\* on every criteria key (an absent key read as None), in their order in the
\* source and as they are in the source, and leaves the source as it was.
C8_QueryExact ==
    pc = "done" =>
        /\ result = Returned(Kept(images0))
        /\ \A x \in Range(images0) :
             Count(x, result.images) = IF Meets(x) THEN Count(x, images0) ELSE 0
        /\ images = images0

C8_Witness ==
    /\ pc = "done"
    /\ Len(criteria.keys) = 2
    /\ None \in Range(criteria.values)
    /\ Len(result.images) >= 2
    /\ Len(result.images) < Len(images)
    /\ ~Meets(images[1])

----------------------------------------------------------------------------
(* image_utils: combine_darks, subtract_dark, perform_darksub.             *)
(* Payloads are taken to be loaded and of one shape.                       *)

RECURSIVE SortInts(_)
SortInts(s) ==
    IF s = <<>> THEN <<>>
    ELSE LET least == CHOOSE k \in 1..Len(s) : \A j \in 1..Len(s) : s[k] <= s[j]
         IN  << s[least] >> \o
             SortInts([ j \in 1..(Len(s) - 1) |-> IF j < least THEN s[j] ELSE s[j + 1] ])

\* np.median of the values of one pixel: NaN if any is NaN, else the middle
\* of the sorted values, the mean of the two middle ones for an even count
np_median(ps) ==
    IF \E k \in 1..Len(ps) : ps[k].nan THEN NaN
    ELSE LET vs == SortInts([ k \in 1..Len(ps) |-> ps[k].v ])
             n == Len(vs)
         IN  IF n % 2 = 1 THEN [nan |-> FALSE, v |-> vs[(n + 1) \div 2]]
             ELSE [nan |-> FALSE, v |-> (vs[n \div 2] + vs[n \div 2 + 1]) \div 2]

\* faulty variant: the pixels are added
np_add(a, b) ==
    IF a.nan \/ b.nan THEN NaN ELSE [nan |-> FALSE, v |-> a.v + b.v]

\* np.subtract on one pixel
np_subtract(a, b) ==
    IF a.nan \/ b.nan THEN NaN ELSE [nan |-> FALSE, v |-> a.v - b.v]

\* combine_darks(*dks)
combine_darks(dks) ==
    IF ~(Len(dks) >= 1) THEN Fail("AssertionError")
    ELSE IF \E j \in 1..Len(dks) : "FILENAME" \notin DOMAIN dks[j].header
    THEN Fail("KeyError")
    ELSE Ok(Frame(0,
                  ("IMAGETYP" :> Str("masterdark"))
                  @@ ("DARKFILES" :>
                        List([ j \in 1..Len(dks) |-> dks[j].header["FILENAME"][2] ]))
                  @@ dks[1].header,
                  [ k \in 1..Len(dks[1].data) |->
                      np_median([ j \in 1..Len(dks) |-> dks[j].data[k] ]) ]))

\* subtract_dark(img, dark)
subtract_dark(img, dark) ==
    IF "DARKFILES" \notin DOMAIN dark.header THEN Fail("KeyError")
    ELSE Ok(Frame(0,
                  ("DARKSUB" :> Str("yes"))
                  @@ ("MDARK_FILES" :> dark.header["DARKFILES"])
                  @@ img.header,
                  [ k \in 1..Len(img.data) |-> np_subtract(img.data[k], dark.data[k]) ]))

\* line 143, the element the comprehension makes of `im`
darksub_one(im, dark) ==
    IF "IMAGETYP" \notin DOMAIN im.header THEN Fail("KeyError")
    ELSE IF im.header["IMAGETYP"] = Str("object")
            \/ im.header["IMAGETYP"] = Str("masterflat")
    THEN subtract_dark(im, dark)
    ELSE Ok(im)

\* perform_darksub(*imgs)
perform_darksub(args) ==
    LET imgs == ImageSetInit(<< [iter |-> args] >>)
        dark == query(imgs, [keys |-> << "IMAGETYP" >>,
                             values |-> << Str("masterdark") >>])
        each == [ k \in 1..Len(imgs) |-> darksub_one(imgs[k], dark[1]) ]
    IN  IF Len(imgs) = 0 THEN Fail("IndexError")                  \* imgs[0]
        ELSE IF "ITIME" \notin DOMAIN imgs[1].header
        THEN Fail("KeyError")                                     \* header['ITIME']
        ELSE IF ~(Len(dark) <= 1) THEN Fail("AssertionError")
        ELSE IF Len(dark) = 0 THEN Ok(imgs)
        ELSE IF \E k \in 1..Len(imgs) : each[k].err # "none"
        THEN Fail(each[CHOOSE k \in 1..Len(imgs) :
                         /\ each[k].err # "none"
                         /\ \A j \in 1..(k - 1) : each[j].err = "none"].err)
        ELSE Ok(ImageSetInit(<< [iter |-> [ k \in 1..Len(imgs) |-> each[k].val ]] >>))

DarkPool == { Object1, MFlat2, MDark3, MDark4, Arc5, Object6, Bare7, MDark8 }

\* a call perform_darksub(*images)
PerformDarksub ==
    /\ pc = "call"
    /\ LET r == perform_darksub(images)
       IN  /\ err' = r.err
           /\ result' = IF r.err = "none" THEN Returned(r.val) ELSE NoResult
    /\ pc' = "done"
    /\ UNCHANGED << images, images0, filter, partition_keys, pos, ignored,
                    partition, transformed, calls, criteria, tripVars, cacheVars >>

InitDarksub ==
    /\ images \in SeqsUpTo(DarkPool, MaxLen)
    /\ criteria = NoCriteria
    /\ InitCall

NextDarksub == PerformDarksub

SpecDarksub == InitDarksub /\ [][NextDarksub]_vars

----------------------------------------------------------------------------
(* subtract_dark and combine_darks composed on one raw image *)

RawPixels == { Px(0), Px(3), NaN }
RawImages ==
    { Frame(1, h, << p, q >>) :
        h \in { ("IMAGETYP" :> Str(t)) @@ ("FILENAME" :> Str("f1")) @@ more :
                  t \in { "dark", "object" },
                  more \in { NoHeader, ("DARKFILES" :> List(<< "d1" >>)),
                             ("ITIME" :> Str("1")) } },
        p \in RawPixels, q \in RawPixels }

\* master = combine_darks(X)
Combine ==
    /\ master = NotRun
    /\ master' = combine_darks(<< X >>)
    /\ UNCHANGED << X, swap, diff, callVars, cacheVars >>

\* subtract_dark(master, X), or subtract_dark(X, master) when swap
Subtract ==
    /\ master.err = "none"
    /\ diff = NotRun
    /\ diff' = IF swap THEN subtract_dark(X, master.val)
               ELSE subtract_dark(master.val, X)
    /\ UNCHANGED << X, swap, master, callVars, cacheVars >>

InitRoundTrip ==
    /\ X \in RawImages
    /\ swap \in BOOLEAN
    /\ master = NotRun
    /\ diff = NotRun
    /\ images = <<>>
    /\ criteria = NoCriteria
    /\ InitCallIdle
    /\ IdleCache

NextRoundTrip == Combine \/ Subtract

SpecRoundTrip == InitRoundTrip /\ [][NextRoundTrip]_vars

----------------------------------------------------------------------------
(* perform_darksub: what the claims speak of *)

IsMasterDark(x) == Get(x, "IMAGETYP") = Str("masterdark")
IsTarget(x) == Get(x, "IMAGETYP") = Str("object") \/ Get(x, "IMAGETYP") = Str("masterflat")
MasterDarks == SelectSeq(images0, IsMasterDark)
AllTyped == \A k \in 1..Len(images0) : "IMAGETYP" \in DOMAIN images0[k].header

\* C4: a collection without a Record tagged 'masterdark' (the empty one and
\* one whose Records carry only a type tag included) is returned as it is:
\* the call succeeds with the same Records in the same order.
C4_NoDarkPassThrough ==
    (pc = "done" /\ Len(MasterDarks) = 0) =>
        /\ err = "none"
        /\ result = Returned(images0)

\* C5: a collection with two or more Records tagged 'masterdark' makes the
\* call fail with the ambiguous-reference error (the failed assertion), with
\* no other kind of error, and return nothing.
C5_AmbiguityGuard ==
    (pc = "done" /\ Len(MasterDarks) >= 2) =>
        /\ err = "AssertionError"
        /\ ~result.returned

\* C6: for a collection with exactly one master-dark whose Records all carry
\* a type tag the call returns a collection of the same size; at the place of
\* a Record tagged 'object' or 'masterflat' stands a Record whose payload is
\* that payload minus the dark's and whose metadata is that metadata plus the
\* subtraction flag and the dark's source list; every other Record stands
\* unchanged.
C6_Dispatch ==
    (pc = "done" /\ Len(MasterDarks) = 1 /\ AllTyped) =>
        /\ err = "none"
        /\ result.returned
        /\ Len(result.images) = Len(images0)
        /\ \A k \in 1..Len(images0) :
             LET im == images0[k]
                 out == result.images[k]
                 dark == MasterDarks[1]
             IN  IF IsTarget(im)
                 THEN /\ out.data = [ n \in 1..Len(im.data) |->
                                        IF im.data[n].nan \/ dark.data[n].nan THEN NaN
                                        ELSE [nan |-> FALSE,
                                              v |-> im.data[n].v - dark.data[n].v] ]
                      /\ out.header = ("DARKSUB" :> Str("yes"))
                                      @@ ("MDARK_FILES" :> Get(dark, "DARKFILES"))
                                      @@ im.header
                 ELSE out = im

----------------------------------------------------------------------------
(* the round trip: what the claim speaks of *)

Finite(img) == \A k \in 1..Len(img.data) : ~img.data[k].nan
AllZero(img) == \A k \in 1..Len(img.data) : img.data[k] = Px(0)

----------------------------------------------------------------------------
(* fits_dataclass.py: Image.load and the payload cache behind Image.data *)

Payloads == { << Px(1) >>, << Px(2) >> }
DiskStates == { Nothing } \cup { Some(d) : d \in Payloads }

\* Image.load(filename, lazy): the file is read, or only its header when
\* lazy; an unreadable file raises and no Image is made
Load ==
    /\ ~alive
    /\ disk.set
    /\ \E lazy \in BOOLEAN :
         _data' = IF lazy THEN Nothing ELSE Some(disk.val)
    /\ alive' = TRUE
    /\ UNCHANGED << disk, ret, reads, stores, accesses, hit, callVars, tripVars >>

\* faulty variant: the property reads the file on every access
DataAlwaysReads ==
    /\ alive
    /\ accesses < MaxAccesses
    /\ accesses' = accesses + 1
    /\ hit' = FALSE
    /\ reads' = reads + 1
    /\ IF disk.set
       THEN /\ _data' = Some(disk.val)
            /\ stores' = stores + 1
            /\ ret' = Ok(disk.val)
       ELSE /\ ret' = Fail("ValueError")
            /\ UNCHANGED << _data, stores >>
    /\ UNCHANGED << disk, alive, callVars, tripVars >>

\* the property Image.data, lines 20-28
Data ==
    /\ alive
    /\ accesses < MaxAccesses
    /\ accesses' = accesses + 1
    /\ IF _data.set
       THEN /\ ret' = Ok(_data.val)
            /\ hit' = TRUE
            /\ UNCHANGED << _data, reads, stores >>
       ELSE /\ hit' = FALSE
            /\ reads' = reads + 1
            /\ IF disk.set
               THEN /\ _data' = Some(disk.val)
                    /\ stores' = stores + 1
                    /\ ret' = Ok(disk.val)
               ELSE /\ ret' = Fail("ValueError")
                    /\ UNCHANGED << _data, stores >>
    /\ UNCHANGED << disk, alive, callVars, tripVars >>

\* the file is rewritten, removed or restored between two accesses
DiskChanges ==
    /\ disk' \in DiskStates \ { disk }
    /\ UNCHANGED << alive, _data, ret, reads, stores, accesses, hit, callVars,
                    tripVars >>

InitData ==
    /\ disk \in DiskStates
    /\ alive = FALSE
    /\ _data = Nothing
    /\ ret = NotRun
    /\ reads = 0
    /\ stores = 0
    /\ accesses = 0
    /\ hit = FALSE
    /\ images = <<>>
    /\ criteria = NoCriteria
    /\ InitCallIdle
    /\ IdleTrip

NextData == Load \/ Data \/ DiskChanges

SpecData == InitData /\ [][NextData]_vars

\* C10: an access with an empty cache invokes the loader once and either
\* stores and returns what it loaded or fails with the load error leaving the
\* cache empty; an access with a filled cache (filled by an earlier access or
\* at an eager load) returns the cached payload without invoking the loader;
\* a filled cache never changes, and the accesses write it at most once.
C10_LoadOnce ==
    [][ /\ _data.set => _data' = _data
        /\ stores' <= 1
        /\ accesses' # accesses =>
             IF _data.set
             THEN /\ ret' = Ok(_data.val)
                  /\ reads' = reads
                  /\ stores' = stores
             ELSE /\ reads' = reads + 1
                  /\ IF disk.set
                     THEN /\ ret' = Ok(disk.val)
                          /\ _data' = Some(disk.val)
                          /\ stores' = stores + 1
                     ELSE /\ ret' = Fail("ValueError")
                          /\ _data' = Nothing
                          /\ stores' = stores ]_vars

C10_Witness ==
    /\ _data.set
    /\ hit
    /\ stores = 1
    /\ reads = 2
    /\ accesses = MaxAccesses
    /\ disk # _data
    /\ ret = Ok(_data.val)

====
